---- MODULE Spec2Model ----
(***************************************************************************)
(* Fotoleine: the image prefetch pipeline.                                 *)
(*   - ImageLoadingPolicy (src/src/image_handling/mod.rs)                  *)
(*   - LoadedDir, the directory session with its cache of loaded images    *)
(*     and its set of pending loads (src/src/image_handling/loaded_dir.rs) *)
(*   - LoadWorker / LoaderPool (src/src/image_handling/loader_pool.rs)     *)
(*   - the event handler of the interaction thread (src/src/main.rs)       *)
(* Indices are 0-based as in the source; a Vec is a TLA+ sequence, so the  *)
(* element at source index k is s[k + 1].                                  *)
(***************************************************************************)
EXTENDS Integers, Sequences, FiniteSets, Bags, TLC

VARIABLES
  loading_policy, \* ImageHandlingServices.loading_policy: the three counts
  loaded_dir,     \* ImageHandling.loaded_dir: None, or the LoadedDir
  task_queue,     \* LoaderPool: the job distribution channel, (path, idx) inputs
  workers,        \* LoaderPool: the bag of the inputs the busy worker threads hold
  output,         \* LoaderPool.output: the channel of (ImageData, idx) results
  events,         \* the event loop's queue of LoadNotification user events
  last,           \* history: what the step into this state did
  policy_call,    \* PolicySpec only: the last call of get_load_set
  pool,           \* PoolSpec only: the threads and the teardown of a WorkerPool
  rating_store    \* RatingsSpec only: ImageRatings, the ratings file, a save

vars == <<loading_policy, loaded_dir, task_queue, workers, output,
          events, last, policy_call, pool, rating_store>>

----------------------------------------------------------------------------
(* Bounds of the model *)

\* largest collection (number of relevant images of a directory) of a session
MaxImages == 2
\* largest value of each of the three counts of the policy, in a session
MaxCount == 1
\* a directory is loaded only while at most this many inputs and results of
\* the directory loaded before are still in the loader pool
MaxStale == 1
\* number of worker threads of the loader pool
NumWorkers == 2
\* PolicySpec: largest collection size passed to get_load_set
MaxPolicyLen == 10
\* PolicySpec: largest value of each of the three counts
MaxPolicyCount == 2
\* PoolSpec: number of inputs submitted to the pool
MaxTasks == 3
\* RatingsSpec: file names are 1..MaxNames, in ascending order of name
MaxNames == 3
\* RatingsSpec: largest number of known files, and of entries of the
\* ratings file the session starts with
MaxKnown == 2
\* RatingsSpec: number of set_rating calls
MaxSets == 2
\* FilterSpec: largest collection of a session
MaxFilterImages == 3
\* NavSpec: largest collection of a session
MaxNavImages == 4
\* NavSpec: largest distance of one offset_current call, in either direction,
\* apart from the offsets at the two ends of i32
MaxOffset == 5

----------------------------------------------------------------------------
(* Helpers *)

Max2(a, b) == IF a >= b THEN a ELSE b

Min2(a, b) == IF a <= b THEN a ELSE b

Range(s) == {s[k] : k \in 1..Len(s)}

Abs(x) == IF x < 0 THEN -x ELSE x

\* Option<T>: None, or Some(x), as a sequence of at most one element
None == <<>>

Some(x) == <<x>>

----------------------------------------------------------------------------
(* ImageLoadingPolicy. The source computes in i32 (`as i32` of the usize   *)
(* arguments and counts); within the bounds of this model every value is   *)
(* far below 2^31, where the casts and the arithmetic are exact.           *)

\* variant: the upper limit is not applied
clamp_lower_only(v, mi, ma) == Max2(v, mi)

\* clamps v in [mi, ma]
clamp(v, mi, ma) == Min2(Max2(v, mi), ma)

max_loaded_image_count ==
  1 + loading_policy.buffer_zone_count * 2
    + loading_policy.load_behind_count + loading_policy.load_ahead_count

\* variant: a buffer zone of radius 0, whatever buffer_zone_count is
buffer_zone_range_no_radius(pivot) == pivot..pivot

buffer_zone_range(pivot) ==
  (pivot - loading_policy.buffer_zone_count)..(pivot + loading_policy.buffer_zone_count)

\* variant: the comparator looks at the distance only, not at the side
priority_less_by_distance(a, b, pivot) == Abs(pivot - a) < Abs(pivot - b)

\* the comparator of sort_unstable_by: TRUE when a orders strictly before b
priority_less(a, b, pivot) ==
  LET a_ahead == a >= pivot
      b_ahead == b >= pivot
      a_dist  == Abs(pivot - a)
      b_dist  == Abs(pivot - b)
  IN  IF a_ahead # b_ahead
        THEN a_ahead       \* ahead of the pivot before behind it
        ELSE a_dist < b_dist

RECURSIVE insert_by_priority(_, _, _)
insert_by_priority(x, s, pivot) ==
  IF s = <<>> THEN <<x>>
  ELSE IF priority_less(x, Head(s), pivot) THEN <<x>> \o s
  ELSE <<Head(s)>> \o insert_by_priority(x, Tail(s), pivot)

RECURSIVE sort_by_priority(_, _)
sort_by_priority(s, pivot) ==
  IF s = <<>> THEN <<>>
  ELSE insert_by_priority(Head(s), sort_by_priority(Tail(s), pivot), pivot)

\* variant: the range runs one index further ahead, clamped against max
load_set_around_pivot_one_more(pivot, max) ==
  LET start0 == pivot - loading_policy.buffer_zone_count - loading_policy.load_behind_count
      end0   == pivot + loading_policy.buffer_zone_count + loading_policy.load_ahead_count + 1
      start  == clamp(start0, 0, max - 1)
      end    == clamp(end0, 0, max)
      idxs   == [k \in 1..(end - start + 1) |-> start + k - 1]
  IN  sort_by_priority(idxs, pivot)

\* variant: the range is returned as collected, not sorted
load_set_around_pivot_unsorted(pivot, max) ==
  LET start0 == pivot - loading_policy.buffer_zone_count - loading_policy.load_behind_count
      end0   == pivot + loading_policy.buffer_zone_count + loading_policy.load_ahead_count
      start  == clamp(start0, 0, max - 1)
      end    == clamp(end0, 0, max - 1)
  IN  [k \in 1..(end - start + 1) |-> start + k - 1]

load_set_around_pivot(pivot, max) ==
  LET start0 == pivot - loading_policy.buffer_zone_count - loading_policy.load_behind_count
      end0   == pivot + loading_policy.buffer_zone_count + loading_policy.load_ahead_count
      start  == clamp(start0, 0, max - 1)
      end    == clamp(end0, 0, max - 1)
      idxs   == [k \in 1..(end - start + 1) |-> start + k - 1]
  IN  sort_by_priority(idxs, pivot)

\* variant: the pivot is never reset
get_load_set_no_reset(pivot, shown_idx, max) ==
  <<pivot, load_set_around_pivot(pivot, max)>>

\* variant: the pivot is reset, the range is still the one around the old pivot
get_load_set_old_range(pivot, shown_idx, max) ==
  IF shown_idx \in buffer_zone_range(pivot)
    THEN <<pivot, load_set_around_pivot(pivot, max)>>
    ELSE <<shown_idx, load_set_around_pivot(pivot, max)>>

\* <<new pivot, load range>>
get_load_set(pivot, shown_idx, max) ==
  IF shown_idx \in buffer_zone_range(pivot)
    THEN <<pivot, load_set_around_pivot(pivot, max)>>
    ELSE <<shown_idx, load_set_around_pivot(shown_idx, max)>>

----------------------------------------------------------------------------
(* LoadedDir *)

\* the largest and the smallest i32
I32Max == 2147483647

I32Min == (-I32Max) - 1

\* a + b in i32 as a build without overflow checks computes it (a build with
\* overflow checks panics where this wraps); written so that no intermediate
\* value leaves the i32 range
wrapping_add_i32(a, b) ==
  IF b > 0 /\ a > I32Max - b
    THEN ((a - I32Max) + (b - I32Max)) - 2        \* a + b - 2^32
    ELSE IF b < 0 /\ a < I32Min - b
      THEN ((a + I32Max) + (b + I32Max)) + 2      \* a + b + 2^32
      ELSE a + b

\* signed_idx += offset; signed_idx.max(0).min(max - 1)
offset_idx(idx, max, offset) ==
  Min2(Max2(wrapping_add_i32(idx, offset), 0), max - 1)

collection_idx(ld, idx) == ld.active_idxs[idx + 1]

current_collection_idx(ld) == collection_idx(ld, ld.current_idx)

\* variant: only the shown image is ever requested
needs_load_shown_only(ld, coll_idx) ==
  /\ coll_idx \notin DOMAIN ld.loaded_images /\ coll_idx \notin ld.pending_loads
  /\ coll_idx = current_collection_idx(ld)

needs_load(ld, coll_idx) ==
  coll_idx \notin DOMAIN ld.loaded_images /\ coll_idx \notin ld.pending_loads

\* variant: nothing is evicted
retain_loaded_all(ld, load_coll_idxs) == ld

\* loaded_images.retain(..): keep the entries whose key is in load_coll_idxs
retain_loaded(ld, load_coll_idxs) ==
  LET kept == DOMAIN ld.loaded_images \cap Range(load_coll_idxs)
  IN  [ld EXCEPT !.loaded_images = [k \in kept |-> ld.loaded_images[k]]]

\* variant: the index is marked pending and nothing is submitted
submit_load_request_marks_only(st, coll_idx) ==
  [dir |-> [st.dir EXCEPT !.pending_loads = @ \cup {coll_idx}],
   submitted |-> st.submitted]

\* pending_loads.insert(coll_idx); loader_pool.submit((path, coll_idx)).
\* The path is a file of the collection of this LoadedDir: dir is "current"
\* for as long as this LoadedDir is the one loaded (see Stale).
submit_load_request(st, coll_idx) ==
  [dir |-> [st.dir EXCEPT !.pending_loads = @ \cup {coll_idx}],
   submitted |-> Append(st.submitted, [dir |-> "current", idx |-> coll_idx])]

\* the for loop of update_loaded over load_coll_idxs, in order
RECURSIVE submit_needed(_, _)
submit_needed(st, load_coll_idxs) ==
  IF load_coll_idxs = <<>> THEN st
  ELSE submit_needed(
         IF needs_load(st.dir, Head(load_coll_idxs))
           THEN submit_load_request(st, Head(load_coll_idxs))
           ELSE st,
         Tail(load_coll_idxs))

\* the load set of the policy, as collection indices
load_coll_idxs_of(ld, load_set) ==
  [k \in 1..Len(load_set) |-> collection_idx(ld, load_set[k])]

\* [dir |-> the LoadedDir after the call, submitted |-> the inputs submitted]
update_loaded(ld) ==
  LET res   == get_load_set(ld.load_pivot, ld.current_idx, Len(ld.active_idxs))
      ld1   == [ld EXCEPT !.load_pivot = res[1]]
      lci   == load_coll_idxs_of(ld1, res[2])
      ld2   == retain_loaded(ld1, lci)
  IN  submit_needed([dir |-> ld2, submitted |-> <<>>], lci)

\* LoadedDir::new for a directory of n relevant images, before update_loaded
new_loaded_dir(n) ==
  [collection    |-> n,
   active_idxs   |-> [k \in 1..n |-> k - 1],
   load_pivot    |-> 0,
   current_idx   |-> 0,
   loaded_images |-> << >>,
   pending_loads |-> {}]

\* variant: the pending marker is left in place on insertion
receive_image_keeps_pending(ld, result, texture_ok) ==
  IF result.idx \notin DOMAIN ld.loaded_images /\ texture_ok
    THEN [ld EXCEPT
            !.loaded_images = [k \in DOMAIN @ \cup {result.idx} |->
                                 IF k = result.idx THEN result.dir ELSE @[k]]]
    ELSE ld

\* variant: a result for an index already loaded replaces the entry
receive_image_overwrite(ld, result, texture_ok) ==
  IF texture_ok
    THEN [ld EXCEPT
            !.loaded_images = [k \in DOMAIN @ \cup {result.idx} |->
                                 IF k = result.idx THEN result.dir ELSE @[k]],
            !.pending_loads = @ \ {result.idx}]
    ELSE ld

\* variant: the insertion clears every pending marker
receive_image_clears_pending(ld, result, texture_ok) ==
  IF result.idx \notin DOMAIN ld.loaded_images /\ texture_ok
    THEN [ld EXCEPT
            !.loaded_images = [k \in DOMAIN @ \cup {result.idx} |->
                                 IF k = result.idx THEN result.dir ELSE @[k]],
            !.pending_loads = {}]
    ELSE ld

\* receive_image with the result (image_data, idx) taken from the output
\* channel; texture_ok: ImageTexture::from_data succeeded
receive_image(ld, result, texture_ok) ==
  IF result.idx \notin DOMAIN ld.loaded_images
    THEN IF texture_ok
           THEN [ld EXCEPT
                   !.loaded_images = [k \in DOMAIN @ \cup {result.idx} |->
                                        IF k = result.idx THEN result.dir ELSE @[k]],
                   !.pending_loads = @ \ {result.idx}]
           ELSE ld    \* the ? operator returns the error
    ELSE ld           \* "Image was already loaded!"

----------------------------------------------------------------------------
(* State *)

\* last: the handler of the interaction thread that made the last step, or
\* NoLast after a step of a worker thread
NoLast == [op |-> "none", dir |-> "none", idx |-> 0, evicted |-> {}]

NoCall == [called |-> FALSE, max |-> 1, pivot |-> 0, shown |-> 0,
           new_pivot |-> 0, load_set |-> <<>>]

\* no directory, no ratings file, no ImageRatings.
\*   known: the file names of the collection (the keys of name_to_idx)
\*   file, tmp: the content of ratings.yaml and of the temporary file
\*   data: ImageRatings.ratings_data; pc, s: where save_ratings is, and its s
\*   result: what the last ImageRatings::new or set_rating returned
\*   sets: the number of set_rating calls so far
\*   orig, complete: history, the content of ratings.yaml at the start and
\*   the last content put there as a whole
NoStore == [known |-> {}, file |-> None, tmp |-> None, data |-> None,
            pc |-> "idle", s |-> <<>>, result |-> "none", sets |-> 0,
            orig |-> None, complete |-> None]

\* WorkerPool::new: every thread waits for its first message; nothing was
\* submitted. received_by, executed and failed are history: the threads that
\* received each input, in order, the number of times execute ran on each
\* input, and the inputs whose load failed.
PoolNew ==
  [worker_threads |-> [w \in 1..NumWorkers |->
                         [pc |-> "recv", idx |-> 0, event_message |-> "none"]],
   drop           |-> [pc |-> "alive", n |-> 0],
   submitted      |-> 0,
   received_by    |-> [i \in 0..(MaxTasks - 1) |-> <<>>],
   executed       |-> [i \in 0..(MaxTasks - 1) |-> 0],
   failed         |-> {}]

Init ==
  /\ loading_policy \in [buffer_zone_count : 0..MaxCount,
                         load_behind_count : 0..MaxCount,
                         load_ahead_count  : 0..MaxCount]
  /\ loaded_dir = None
  /\ task_queue = <<>>
  /\ workers = EmptyBag
  /\ output = <<>>
  /\ events = <<>>
  /\ last = NoLast
  /\ policy_call = NoCall
  /\ pool = PoolNew
  /\ rating_store = NoStore

----------------------------------------------------------------------------
(* The interaction thread *)

\* what one update_loaded did, for the history variable
update_record(op, before, st) ==
  [op      |-> op,
   dir     |-> "none",
   idx     |-> 0,
   evicted |-> DOMAIN before.loaded_images \ DOMAIN st.dir.loaded_images]

\* An input or a result names a file by its path. When another directory is
\* loaded, the paths still in the pool are files of a directory loaded before.
Stale(t) == IF t.dir = "current" THEN [t EXCEPT !.dir = "previous"] ELSE t

StaleSeq(s) == [k \in 1..Len(s) |-> Stale(s[k])]

StaleBag(b) ==
  LET old == BagToSet(b)
      new == {Stale(t) : t \in old}
      count(u) == LET from == {t \in old : Stale(t) = u}
                      RECURSIVE sum(_)
                      sum(S) == IF S = {} THEN 0
                                ELSE LET t == CHOOSE x \in S : TRUE
                                     IN  b[t] + sum(S \ {t})
                  IN  sum(from)
  IN  [u \in new |-> count(u)]

\* the inputs and results in the loader pool, and the events not yet handled
InPool == Len(task_queue) + BagCardinality(workers) + Len(output)

Unhandled == Len(events)

\* ImageHandling::load_path on a directory with n relevant images
LoadPath(n) ==
  /\ InPool <= MaxStale
  /\ Unhandled <= MaxStale
  /\ LET fresh == new_loaded_dir(n)
         st    == update_loaded(fresh)
     IN  /\ loaded_dir' = Some(st.dir)
         /\ task_queue' = StaleSeq(task_queue) \o st.submitted
         /\ last' = update_record("load_path", fresh, st)
  /\ workers' = StaleBag(workers)
  /\ output' = StaleSeq(output)
  /\ UNCHANGED <<loading_policy, events, policy_call, pool, rating_store>>

\* DirLoadError
DirLoadErrors == {"NotADirectory", "NoRelevantImages", "IoError", "RatingsLoadError"}

\* variant: load_path gives up the LoadedDir it has before it tries the path
LoadPathError_drops_session(error) ==
  /\ loaded_dir' = None
  /\ last' = [NoLast EXCEPT !.op = error]
  /\ UNCHANGED <<loading_policy, task_queue, workers, output, events, policy_call, pool, rating_store>>

\* ImageHandling::load_path on a path for which LoadedDir::new returns Err:
\* not a directory, read_dir fails, no relevant image, or ImageRatings::new
\* fails. Each return precedes update_loaded, and the ? in load_path precedes
\* the assignment of loaded_dir.
LoadPathError(error) ==
  /\ last' = [NoLast EXCEPT !.op = error]
  /\ UNCHANGED <<loading_policy, loaded_dir, task_queue, workers, output, events, policy_call, pool, rating_store>>

\* variant: the requests still queued are withdrawn before the new ones
\* are submitted
OffsetCurrent_cancels(offset) ==
  /\ loaded_dir # None
  /\ LET ld    == loaded_dir[1]
         moved == [ld EXCEPT !.current_idx = offset_idx(@, Len(ld.active_idxs), offset)]
         st    == update_loaded(moved)
     IN  /\ loaded_dir' = Some(st.dir)
         /\ task_queue' = st.submitted
         /\ last' = update_record("offset_current", ld, st)
  /\ UNCHANGED <<loading_policy, workers, output, events, policy_call, pool, rating_store>>

\* LoadedDir::offset_current, from the A and D keys
OffsetCurrent(offset) ==
  /\ loaded_dir # None
  /\ LET ld    == loaded_dir[1]
         moved == [ld EXCEPT !.current_idx = offset_idx(@, Len(ld.active_idxs), offset)]
         st    == update_loaded(moved)
     IN  /\ loaded_dir' = Some(st.dir)
         /\ task_queue' = task_queue \o st.submitted
         /\ last' = update_record("offset_current", ld, st)
  /\ UNCHANGED <<loading_policy, workers, output, events, policy_call, pool, rating_store>>

\* on_event, UserEvent(ImageLoaded): receive_image, whose recv blocks on output
HandleImageLoaded(texture_ok) ==
  /\ events # <<>>
  /\ Head(events) = "ImageLoaded"
  /\ events' = Tail(events)
  /\ IF loaded_dir # None
       THEN /\ output # <<>>
            /\ output' = Tail(output)
            /\ loaded_dir' = Some(receive_image(loaded_dir[1], Head(output), texture_ok))
            /\ last' = [op |-> IF Head(output).idx \in DOMAIN loaded_dir[1].loaded_images
                                 THEN "receive_duplicate"
                                 ELSE IF texture_ok THEN "receive_insert"
                                                    ELSE "receive_texture_error",
                        dir |-> Head(output).dir, idx |-> Head(output).idx,
                        evicted |-> {}]
       ELSE /\ texture_ok
            /\ UNCHANGED <<output, loaded_dir>>
            /\ last' = NoLast
  /\ UNCHANGED <<loading_policy, task_queue, workers, policy_call, pool, rating_store>>

\* on_event, UserEvent(LoadFailed): only prints
HandleLoadFailed ==
  /\ events # <<>>
  /\ Head(events) = "LoadFailed"
  /\ events' = Tail(events)
  /\ last' = [NoLast EXCEPT !.op = "load_failed"]
  /\ UNCHANGED <<loading_policy, loaded_dir, task_queue, workers, output, policy_call, pool, rating_store>>

----------------------------------------------------------------------------
(* The worker threads of the loader pool. The threads run the same code and *)
(* hold no state between two inputs, so the pool is the bag of what its     *)
(* busy threads hold; the other threads wait for an input.                  *)

\* a worker executing an input
Executing(t) == [pc |-> "execute", dir |-> t.dir, idx |-> t.idx]

\* a worker that is done with its input and about to send the event message
Notifying(event_message) == [pc |-> event_message, dir |-> "none", idx |-> 0]

\* a waiting worker receives the next input of the job distribution channel
WorkerTake ==
  /\ BagCardinality(workers) < NumWorkers
  /\ task_queue # <<>>
  /\ workers' = workers (+) SetToBag({Executing(Head(task_queue))})
  /\ task_queue' = Tail(task_queue)
  /\ last' = NoLast
  /\ UNCHANGED <<loading_policy, loaded_dir, output, events, policy_call, pool, rating_store>>

\* variant: the result is not sent before the event message is chosen
WorkerLoad_no_send(t, load_ok) ==
  /\ BagIn(t, workers)
  /\ t.pc = "execute"
  /\ output' = output
  /\ workers' = (workers (-) SetToBag({t}))
                  (+) SetToBag({Notifying(IF load_ok THEN "ImageLoaded" ELSE "LoadFailed")})
  /\ last' = NoLast
  /\ UNCHANGED <<loading_policy, loaded_dir, task_queue, events, policy_call, pool, rating_store>>

\* variant: the worker thread puts the image it loaded into loaded_images itself
WorkerLoad_inserts(t, load_ok) ==
  /\ BagIn(t, workers)
  /\ t.pc = "execute"
  /\ IF load_ok
       THEN /\ output' = Append(output, [dir |-> t.dir, idx |-> t.idx])
            /\ workers' = (workers (-) SetToBag({t})) (+) SetToBag({Notifying("ImageLoaded")})
            /\ loaded_dir' =
                 IF loaded_dir = None THEN loaded_dir
                 ELSE Some([loaded_dir[1] EXCEPT
                        !.loaded_images = [k \in DOMAIN @ \cup {t.idx} |->
                                             IF k = t.idx THEN t.dir ELSE @[k]]])
       ELSE /\ output' = output
            /\ workers' = (workers (-) SetToBag({t})) (+) SetToBag({Notifying("LoadFailed")})
            /\ loaded_dir' = loaded_dir
  /\ last' = NoLast
  /\ UNCHANGED <<loading_policy, task_queue, events, policy_call, pool, rating_store>>

\* LoadWorker::execute up to the choice of the event message:
\* ImageData::load, and output.send when it succeeded
WorkerLoad(t, load_ok) ==
  /\ BagIn(t, workers)
  /\ t.pc = "execute"
  /\ IF load_ok
       THEN /\ output' = Append(output, [dir |-> t.dir, idx |-> t.idx])
            /\ workers' = (workers (-) SetToBag({t})) (+) SetToBag({Notifying("ImageLoaded")})
       ELSE /\ output' = output
            /\ workers' = (workers (-) SetToBag({t})) (+) SetToBag({Notifying("LoadFailed")})
  /\ last' = NoLast
  /\ UNCHANGED <<loading_policy, loaded_dir, task_queue, events, policy_call, pool, rating_store>>

\* LoadWorker::execute: event_loop_proxy.send_event(event_message)
WorkerNotify(t) ==
  /\ BagIn(t, workers)
  /\ t.pc \in {"ImageLoaded", "LoadFailed"}
  /\ events' = Append(events, t.pc)
  /\ workers' = workers (-) SetToBag({t})
  /\ last' = NoLast
  /\ UNCHANGED <<loading_policy, loaded_dir, task_queue, output, policy_call, pool, rating_store>>

\* one step of some worker thread
WorkerStep ==
  \/ WorkerTake
  \/ \E t \in BagToSet(workers), load_ok \in BOOLEAN : WorkerLoad(t, load_ok)
  \/ \E t \in BagToSet(workers) : WorkerNotify(t)

----------------------------------------------------------------------------

Next ==
  \/ \E n \in 1..MaxImages : LoadPath(n)
  \/ \E offset \in {-1, 1} : OffsetCurrent(offset)
  \/ \E texture_ok \in BOOLEAN : HandleImageLoaded(texture_ok)
  \/ HandleLoadFailed
  \/ WorkerTake
  \/ \E t \in BagToSet(workers), load_ok \in BOOLEAN : WorkerLoad(t, load_ok)
  \/ \E t \in BagToSet(workers) : WorkerNotify(t)

Spec == Init /\ [][Next]_vars

\* the inputs a worker thread can hold
TaskIds == [dir : {"current", "previous"}, idx : 0..(MaxImages - 1)]

\* Each worker thread is scheduled fairly: a waiting thread receives the next
\* input, a load ends, the event message is sent. The event loop handles
\* every user event sent to it. Navigation is up to the user.
LiveSpec ==
  /\ Spec
  /\ WF_vars(WorkerTake)
  /\ \A t \in TaskIds : WF_vars(\E load_ok \in BOOLEAN : WorkerLoad(Executing(t), load_ok))
  /\ \A event_message \in {"ImageLoaded", "LoadFailed"} :
       WF_vars(WorkerNotify(Notifying(event_message)))
  /\ WF_vars(\E texture_ok \in BOOLEAN : HandleImageLoaded(texture_ok))
  /\ WF_vars(HandleLoadFailed)

----------------------------------------------------------------------------
(* The loading policy alone: get_load_set called again and again, each     *)
(* call with the pivot the call before returned, as update_loaded does.    *)

PolicyInit ==
  /\ loading_policy \in [buffer_zone_count : 0..MaxPolicyCount,
                         load_behind_count : 0..MaxPolicyCount,
                         load_ahead_count  : 0..MaxPolicyCount]
  /\ \E max \in 1..MaxPolicyLen, pivot \in 0..(MaxPolicyLen - 1) :
       /\ pivot < max
       /\ policy_call = [NoCall EXCEPT !.max = max, !.pivot = pivot,
                                       !.shown = pivot, !.new_pivot = pivot]
  /\ loaded_dir = None
  /\ task_queue = <<>>
  /\ workers = EmptyBag
  /\ output = <<>>
  /\ events = <<>>
  /\ last = NoLast
  /\ pool = PoolNew
  /\ rating_store = NoStore

\* get_load_set(pivot, shown_idx, max) with the pivot of the call before
PolicyCall(shown_idx) ==
  /\ LET res == get_load_set(policy_call.new_pivot, shown_idx, policy_call.max)
     IN  policy_call' = [called    |-> TRUE,
                         max       |-> policy_call.max,
                         pivot     |-> policy_call.new_pivot,
                         shown     |-> shown_idx,
                         new_pivot |-> res[1],
                         load_set  |-> res[2]]
  /\ UNCHANGED <<loading_policy, loaded_dir, task_queue, workers, output, events, last, pool, rating_store>>

PolicyNext == \E shown_idx \in 0..(policy_call.max - 1) : PolicyCall(shown_idx)

PolicySpec == PolicyInit /\ [][PolicyNext]_vars

----------------------------------------------------------------------------
(* Navigation alone: a directory is loaded, or fails to load, and          *)
(* offset_current is called with any offset, while no worker thread runs.  *)

\* the offsets passed to offset_current (offset: i32)
NavOffsets == ((-MaxOffset)..MaxOffset) \cup {I32Min, I32Max - 1, I32Max}

NavNext ==
  \/ \E n \in 1..MaxNavImages : LoadPath(n)
  \/ \E error \in DirLoadErrors : LoadPathError(error)
  \/ \E offset \in NavOffsets : OffsetCurrent(offset)

NavSpec == Init /\ [][NavNext]_vars

----------------------------------------------------------------------------
(* The WorkerPool alone, with LoadWorker as its worker: inputs are         *)
(* submitted, the threads receive and execute them, and the pool is        *)
(* dropped. The job distribution channel (task_queue) carries the variants *)
(* JobInput and Terminate; each thread is followed by its number.          *)

JobInput(i) == [job |-> "JobInput", dir |-> "current", idx |-> i]

Terminate == [job |-> "Terminate", dir |-> "none", idx |-> 0]

PoolInit ==
  /\ loading_policy = [buffer_zone_count |-> 2, load_behind_count |-> 2,
                       load_ahead_count |-> 5]
  /\ loaded_dir = None
  /\ task_queue = <<>>
  /\ workers = EmptyBag
  /\ output = <<>>
  /\ events = <<>>
  /\ last = NoLast
  /\ policy_call = NoCall
  /\ pool = PoolNew
  /\ rating_store = NoStore

\* submit(input): the input is sent on the job distribution channel
PoolSubmit ==
  /\ pool.drop.pc = "alive"
  /\ pool.submitted < MaxTasks
  /\ task_queue' = Append(task_queue, JobInput(pool.submitted))
  /\ pool' = [pool EXCEPT !.submitted = @ + 1]
  /\ UNCHANGED <<loading_policy, loaded_dir, workers, output, events, last, policy_call, rating_store>>

\* variant: the thread reads the message at the head of the channel and
\* leaves it there
PoolWorkerRecv_peek(w) ==
  /\ pool.worker_threads[w].pc = "recv"
  /\ task_queue # <<>>
  /\ LET msg == Head(task_queue)
     IN  IF msg.job = "Terminate"
           THEN /\ pool' = [pool EXCEPT !.worker_threads[w].pc = "exited"]
                /\ task_queue' = Tail(task_queue)
           ELSE /\ Len(pool.received_by[msg.idx]) < 2
                /\ pool' = [pool EXCEPT
                              !.worker_threads[w].pc = "execute",
                              !.worker_threads[w].idx = msg.idx,
                              !.received_by[msg.idx] = Append(@, w)]
                /\ task_queue' = IF Len(pool.received_by[msg.idx]) = 1
                                   THEN Tail(task_queue) ELSE task_queue
  /\ UNCHANGED <<loading_policy, loaded_dir, workers, output, events, last, policy_call, rating_store>>

\* variant: a thread that finds the channel empty ends
PoolWorkerRecv_exits_when_idle(w) ==
  /\ pool.worker_threads[w].pc = "recv"
  /\ IF task_queue = <<>>
       THEN /\ pool' = [pool EXCEPT !.worker_threads[w].pc = "exited"]
            /\ task_queue' = task_queue
       ELSE LET msg == Head(task_queue)
            IN  /\ task_queue' = Tail(task_queue)
                /\ IF msg.job = "Terminate"
                     THEN pool' = [pool EXCEPT !.worker_threads[w].pc = "exited"]
                     ELSE pool' = [pool EXCEPT
                                     !.worker_threads[w].pc = "execute",
                                     !.worker_threads[w].idx = msg.idx,
                                     !.received_by[msg.idx] = Append(@, w)]
  /\ UNCHANGED <<loading_policy, loaded_dir, workers, output, events, last, policy_call, rating_store>>

\* the thread closure: with the mutex of the job distribution channel held,
\* the blocking recv takes the message at its head; Terminate ends the thread,
\* a JobInput is executed
PoolWorkerRecv(w) ==
  /\ pool.worker_threads[w].pc = "recv"
  /\ task_queue # <<>>
  /\ task_queue' = Tail(task_queue)
  /\ LET msg == Head(task_queue)
     IN  IF msg.job = "Terminate"
           THEN pool' = [pool EXCEPT !.worker_threads[w].pc = "exited"]
           ELSE pool' = [pool EXCEPT
                           !.worker_threads[w].pc = "execute",
                           !.worker_threads[w].idx = msg.idx,
                           !.received_by[msg.idx] = Append(@, w)]
  /\ UNCHANGED <<loading_policy, loaded_dir, workers, output, events, last, policy_call, rating_store>>

\* variant: a load that succeeded notifies ImageLoaded and sends no result
PoolWorkerExecute_no_send(w, load_ok) ==
  /\ pool.worker_threads[w].pc = "execute"
  /\ output' = output
  /\ pool' = [pool EXCEPT
                !.worker_threads[w].pc = "notify",
                !.worker_threads[w].event_message =
                   IF load_ok THEN "ImageLoaded" ELSE "LoadFailed",
                !.executed[pool.worker_threads[w].idx] = @ + 1,
                !.failed = IF load_ok THEN @ ELSE @ \cup {pool.worker_threads[w].idx}]
  /\ UNCHANGED <<loading_policy, loaded_dir, task_queue, workers, events, last, policy_call, rating_store>>

\* variant: a load that failed ends the thread (unwrap of the load result)
PoolWorkerExecute_unwrap(w, load_ok) ==
  /\ pool.worker_threads[w].pc = "execute"
  /\ output' = IF load_ok
                 THEN Append(output, [dir |-> "current", idx |-> pool.worker_threads[w].idx])
                 ELSE output
  /\ pool' = [pool EXCEPT
                !.worker_threads[w].pc = IF load_ok THEN "notify" ELSE "exited",
                !.worker_threads[w].event_message =
                   IF load_ok THEN "ImageLoaded" ELSE "none",
                !.executed[pool.worker_threads[w].idx] = @ + 1,
                !.failed = IF load_ok THEN @ ELSE @ \cup {pool.worker_threads[w].idx}]
  /\ UNCHANGED <<loading_policy, loaded_dir, task_queue, workers, events, last, policy_call, rating_store>>

\* LoadWorker::execute up to the choice of the event message, as WorkerLoad.
\* output.send fails only when the receiver is gone, and the receiver is a
\* field of the pool, dropped after drop has joined every thread.
PoolWorkerExecute(w, load_ok) ==
  /\ pool.worker_threads[w].pc = "execute"
  /\ output' = IF load_ok
                 THEN Append(output, [dir |-> "current", idx |-> pool.worker_threads[w].idx])
                 ELSE output
  /\ pool' = [pool EXCEPT
                !.worker_threads[w].pc = "notify",
                !.worker_threads[w].event_message =
                   IF load_ok THEN "ImageLoaded" ELSE "LoadFailed",
                !.executed[pool.worker_threads[w].idx] = @ + 1,
                !.failed = IF load_ok THEN @ ELSE @ \cup {pool.worker_threads[w].idx}]
  /\ UNCHANGED <<loading_policy, loaded_dir, task_queue, workers, events, last, policy_call, rating_store>>

\* LoadWorker::execute: send_event(event_message); execute returns and the
\* thread waits for the next message
PoolWorkerNotify(w) ==
  /\ pool.worker_threads[w].pc = "notify"
  /\ events' = Append(events, pool.worker_threads[w].event_message)
  /\ pool' = [pool EXCEPT !.worker_threads[w].pc = "recv",
                          !.worker_threads[w].event_message = "none"]
  /\ UNCHANGED <<loading_policy, loaded_dir, task_queue, workers, output, last, policy_call, rating_store>>

\* drop: one Terminate is sent per thread, one send at a time
PoolDropTerminate ==
  /\ pool.drop.pc \in {"alive", "terminate"}
  /\ task_queue' = Append(task_queue, Terminate)
  /\ pool' = [pool EXCEPT !.drop = IF pool.drop.n + 1 = NumWorkers
                                     THEN [pc |-> "join", n |-> 0]
                                     ELSE [pc |-> "terminate", n |-> pool.drop.n + 1]]
  /\ UNCHANGED <<loading_policy, loaded_dir, workers, output, events, last, policy_call, rating_store>>

\* variant: drop does not wait for the thread it joins
PoolDropJoin_no_wait ==
  /\ pool.drop.pc = "join"
  /\ pool' = [pool EXCEPT !.drop = IF pool.drop.n + 1 = NumWorkers
                                     THEN [pc |-> "dropped", n |-> 0]
                                     ELSE [pc |-> "join", n |-> pool.drop.n + 1]]
  /\ UNCHANGED <<loading_policy, loaded_dir, task_queue, workers, output, events, last, policy_call, rating_store>>

\* drop: handle.join() on the threads in order; join returns when the
\* thread has ended
PoolDropJoin ==
  /\ pool.drop.pc = "join"
  /\ pool.worker_threads[pool.drop.n + 1].pc = "exited"
  /\ pool' = [pool EXCEPT !.drop = IF pool.drop.n + 1 = NumWorkers
                                     THEN [pc |-> "dropped", n |-> 0]
                                     ELSE [pc |-> "join", n |-> pool.drop.n + 1]]
  /\ UNCHANGED <<loading_policy, loaded_dir, task_queue, workers, output, events, last, policy_call, rating_store>>

\* one step of thread w
PoolWorkerStep(w) ==
  \/ PoolWorkerRecv(w)
  \/ \E load_ok \in BOOLEAN : PoolWorkerExecute(w, load_ok)
  \/ PoolWorkerNotify(w)

PoolNext ==
  \/ PoolSubmit
  \/ \E w \in 1..NumWorkers : PoolWorkerStep(w)
  \/ PoolDropTerminate
  \/ PoolDropJoin

PoolSpec == PoolInit /\ [][PoolNext]_vars

\* The threads are scheduled fairly and a load ends; drop, once it has begun,
\* goes on. Whether an input is submitted and whether the pool is dropped is
\* up to the owner of the pool.
PoolFairSpec ==
  /\ PoolSpec
  /\ \A w \in 1..NumWorkers : WF_vars(PoolWorkerStep(w))
  /\ WF_vars(pool.drop.pc # "alive" /\ (PoolDropTerminate \/ PoolDropJoin))

----------------------------------------------------------------------------
(* ImageRatings and the ratings file. A document is the sequence of the    *)
(* entries <<name, level>> of a YAML map; torn says that it ends inside an *)
(* entry. A file is None (it does not exist) or Some(document).            *)

\* the largest u8
U8Max == 255

Names == 1..MaxNames

\* the levels found in the ratings file a session starts with
FileLevels == {-1, 0, 1, 2, U8Max, U8Max + 1}

Doc(entries, torn) == [entries |-> entries, torn |-> torn]

from_u8(val) ==
  LET limited == Min2(val, 2)
  IN  IF limited = 0 THEN "Low"
      ELSE IF limited = 1 THEN "Medium"
      ELSE "High"

to_u8(rating) ==
  CASE rating = "Low"    -> 0
    [] rating = "Medium" -> 1
    [] rating = "High"   -> 2

\* map.insert(key, value)
map_insert(map, key, value) ==
  [k \in DOMAIN map \cup {key} |-> IF k = key THEN value ELSE map[k]]

\* variant: every entry of the file goes to orphaned_ratings as well
load_entry_orphans_all(data, known, entry) ==
  LET rating == from_u8(entry[2])
  IN  IF entry[1] \in known
        THEN [data EXCEPT !.ratings = map_insert(@, entry[1], rating),
                          !.orphaned_ratings = map_insert(@, entry[1], rating)]
        ELSE [data EXCEPT !.orphaned_ratings = map_insert(@, entry[1], rating)]

\* the body of the loop of RatingsData::load over the deserialized map
load_entry(data, known, entry) ==
  LET rating == from_u8(entry[2])
  IN  IF entry[1] \in known
        THEN [data EXCEPT !.ratings = map_insert(@, entry[1], rating)]
        ELSE [data EXCEPT !.orphaned_ratings = map_insert(@, entry[1], rating)]

RECURSIVE load_entries(_, _, _)
load_entries(data, known, entries) ==
  IF entries = <<>> THEN data
  ELSE load_entries(load_entry(data, known, Head(entries)), known, Tail(entries))

\* serde_yaml::from_reader into HashMap<String, u8>: fails on a document that
\* is cut short and on a level that is no u8
deserializes(doc) ==
  /\ ~ doc.torn
  /\ \A k \in 1..Len(doc.entries) : doc.entries[k][2] \in 0..U8Max

\* variant: the known names get no default rating
RatingsData_load_no_default(file, known, open_ok) ==
  LET data == [ratings |-> << >>, orphaned_ratings |-> << >>]
  IN  IF file = None THEN [result |-> "Loaded", data |-> Some(data)]
      ELSE IF ~ open_ok THEN [result |-> "FileOpenError", data |-> None]
      ELSE IF ~ deserializes(file[1])
        THEN [result |-> "DeserializeError", data |-> None]
        ELSE [result |-> "Loaded",
              data |-> Some(load_entries(data, known, file[1].entries))]

\* RatingsData::load: [result, data]
RatingsData_load(file, known, open_ok) ==
  LET data == [ratings |-> [n \in known |-> "Low"], orphaned_ratings |-> << >>]
  IN  IF file = None THEN [result |-> "Loaded", data |-> Some(data)]
      ELSE IF ~ open_ok THEN [result |-> "FileOpenError", data |-> None]
      ELSE IF ~ deserializes(file[1])
        THEN [result |-> "DeserializeError", data |-> None]
        ELSE [result |-> "Loaded",
              data |-> Some(load_entries(data, known, file[1].entries))]

\* the entries of a map, in ascending order of key
RECURSIVE map_entries(_)
map_entries(map) ==
  IF DOMAIN map = {} THEN <<>>
  ELSE LET k == CHOOSE x \in DOMAIN map : \A y \in DOMAIN map : x <= y
       IN  <<<<k, map[k]>>>> \o map_entries([j \in DOMAIN map \ {k} |-> map[j]])

RECURSIVE insert_by_key(_, _)
insert_by_key(e, s) ==
  IF s = <<>> THEN <<e>>
  ELSE IF e[1] < Head(s)[1] THEN <<e>> \o s
  ELSE <<Head(s)>> \o insert_by_key(e, Tail(s))

\* entries.sort_unstable_by_key(|kv| kv.0)
RECURSIVE sort_by_key(_)
sort_by_key(s) ==
  IF s = <<>> THEN <<>> ELSE insert_by_key(Head(s), sort_by_key(Tail(s)))

\* variant: a Low rating is not written
serialize_sparse(data) ==
  LET entries == sort_by_key(map_entries(data.ratings) \o map_entries(data.orphaned_ratings))
  IN  SelectSeq([k \in 1..Len(entries) |-> <<entries[k][1], to_u8(entries[k][2])>>],
                LAMBDA e : e[2] # 0)

\* Serialize for RatingsData: the entries of ratings chained with those of
\* orphaned_ratings, sorted by key, each rating written as its u8
serialize(data) ==
  LET entries == sort_by_key(map_entries(data.ratings) \o map_entries(data.orphaned_ratings))
  IN  [k \in 1..Len(entries) |-> <<entries[k][1], to_u8(entries[k][2])>>]

\* the ratings files a session may find: none, or a whole document
InitialFiles ==
  {None} \cup
  {Some(Doc(map_entries(g), FALSE)) :
     g \in UNION {[S -> FileLevels] :
                    S \in {T \in SUBSET Names : Cardinality(T) <= MaxKnown}}}

RatingsInit ==
  /\ loading_policy = [buffer_zone_count |-> 2, load_behind_count |-> 2,
                       load_ahead_count |-> 5]
  /\ loaded_dir = None
  /\ task_queue = <<>>
  /\ workers = EmptyBag
  /\ output = <<>>
  /\ events = <<>>
  /\ last = NoLast
  /\ policy_call = NoCall
  /\ pool = PoolNew
  /\ \E known \in {T \in SUBSET Names : Cardinality(T) \in 1..MaxKnown},
        file \in InitialFiles :
       rating_store = [NoStore EXCEPT !.known = known, !.file = file,
                                      !.orig = file, !.complete = file]

UnchangedByRatings ==
  UNCHANGED <<loading_policy, loaded_dir, task_queue, workers, output, events,
              last, policy_call, pool>>

\* ImageRatings::new: the ratings of the directory are loaded
RatingsNew(open_ok) ==
  /\ rating_store.data = None
  /\ LET loaded == RatingsData_load(rating_store.file, rating_store.known, open_ok)
     IN  rating_store' = [rating_store EXCEPT !.data = loaded.data,
                                              !.result = loaded.result]
  /\ UnchangedByRatings

\* set_rating: the insert, and save_ratings up to serde_yaml::to_string
SetRating(img_name, rating, ser_ok) ==
  /\ rating_store.data # None
  /\ rating_store.pc = "idle"
  /\ rating_store.sets < MaxSets
  /\ img_name \in rating_store.known
  /\ LET data == [rating_store.data[1] EXCEPT
                    !.ratings = map_insert(@, img_name, rating)]
     IN  rating_store' =
           IF ser_ok
             THEN [rating_store EXCEPT !.data = Some(data), !.pc = "new_in",
                                       !.s = serialize(data), !.result = "none",
                                       !.sets = @ + 1]
             ELSE [rating_store EXCEPT !.data = Some(data),
                                       !.result = "SerializeError",
                                       !.sets = @ + 1]
  /\ UnchangedByRatings

\* save_ratings: NamedTempFile::new_in(folder_path)
SaveCreateTemp(ok) ==
  /\ rating_store.pc = "new_in"
  /\ rating_store' =
       IF ok
         THEN [rating_store EXCEPT !.tmp = Some(Doc(<<>>, FALSE)), !.pc = "write"]
         ELSE [rating_store EXCEPT !.pc = "idle", !.s = <<>>,
                                   !.result = "WriteError"]
  /\ UnchangedByRatings

\* variant: write_all, an Ok says that every byte is in the file
SaveWrite_all(written, torn, ok) ==
  /\ rating_store.pc = "write"
  /\ written \in 0..Len(rating_store.s)
  /\ (written = Len(rating_store.s)) => ~ torn
  /\ rating_store' =
       IF ok /\ written = Len(rating_store.s)
         THEN [rating_store EXCEPT
                 !.tmp = Some(Doc(rating_store.s, FALSE)), !.pc = "persist"]
         ELSE [rating_store EXCEPT !.tmp = None, !.pc = "idle", !.s = <<>>,
                                   !.result = "WriteError"]
  /\ UnchangedByRatings

\* save_ratings: tmp_file.as_file_mut().write(s.as_bytes()). One write call:
\* Ok(n) with the first n bytes in the file, n not looked at, or an error,
\* on which the temporary file is dropped and with that deleted
SaveWrite(written, torn, ok) ==
  /\ rating_store.pc = "write"
  /\ written \in 0..Len(rating_store.s)
  /\ (written = Len(rating_store.s)) => ~ torn
  /\ (written = 0) => torn
  /\ rating_store' =
       IF ok
         THEN [rating_store EXCEPT
                 !.tmp = Some(Doc(SubSeq(rating_store.s, 1, written), torn)),
                 !.pc = "persist"]
         ELSE [rating_store EXCEPT !.tmp = None, !.pc = "idle", !.s = <<>>,
                                   !.result = "WriteError"]
  /\ UnchangedByRatings

\* save_ratings: tmp_file.persist(ratings_file_path), a rename onto the
\* ratings file
SavePersist(ok) ==
  /\ rating_store.pc = "persist"
  /\ rating_store' =
       IF ok
         THEN [rating_store EXCEPT
                 !.file = rating_store.tmp, !.tmp = None, !.pc = "idle",
                 !.s = <<>>, !.result = "Ok",
                 !.complete = IF rating_store.tmp = Some(Doc(rating_store.s, FALSE))
                                THEN rating_store.tmp ELSE @]
         ELSE [rating_store EXCEPT !.tmp = None, !.pc = "idle", !.s = <<>>,
                                   !.result = "PersistError"]
  /\ UnchangedByRatings

\* the process ends at any point, a save in progress included: memory is
\* gone, the ratings file stays as it is
RatingsCrash ==
  /\ rating_store.data # None
  /\ rating_store' = [rating_store EXCEPT !.data = None, !.tmp = None,
                                          !.pc = "idle", !.s = <<>>,
                                          !.result = "none"]
  /\ UnchangedByRatings

RatingsNext ==
  \/ \E open_ok \in BOOLEAN : RatingsNew(open_ok)
  \/ \E img_name \in Names, rating \in {"Low", "Medium", "High"},
        ser_ok \in BOOLEAN : SetRating(img_name, rating, ser_ok)
  \/ \E ok \in BOOLEAN : SaveCreateTemp(ok)
  \/ \E written \in 0..MaxNames, torn \in BOOLEAN, ok \in BOOLEAN :
       SaveWrite(written, torn, ok)
  \/ \E ok \in BOOLEAN : SavePersist(ok)
  \/ RatingsCrash

RatingsSpec == RatingsInit /\ [][RatingsNext]_vars

----------------------------------------------------------------------------
(* State functions used by the properties *)

HasDir == loaded_dir # None

Dir == loaded_dir[1]

CacheKeys == DOMAIN Dir.loaded_images

Pending == Dir.pending_loads

\* the resident set: the load set of the policy for the pivot and the shown
\* index of the LoadedDir, as collection indices
ResidentSet ==
  Range(load_coll_idxs_of(Dir,
          get_load_set(Dir.load_pivot, Dir.current_idx, Len(Dir.active_idxs))[2]))

UpdateOps == {"load_path", "offset_current"}

ReceiveOps == {"receive_insert", "receive_duplicate", "receive_texture_error"}

\* a load of collection index i of the loaded directory is still in the pool:
\* not yet taken, being executed, or its result not yet received
Outstanding(i) ==
  LET t == [dir |-> "current", idx |-> i]
  IN  \/ t \in Range(task_queue)
      \/ BagIn(Executing(t), workers)
      \/ t \in Range(output)

\* LoadFailed messages on their way to the interaction thread
UnhandledFailures ==
  CopiesIn(Notifying("LoadFailed"), workers)
    + Cardinality({k \in 1..Len(events) : events[k] = "LoadFailed"})

----------------------------------------------------------------------------
(* Properties *)

\* C1: in every reachable state no collection index is both a key of
\* loaded_images and a member of pending_loads
C1_CachePendingDisjoint ==
  HasDir => CacheKeys \cap Pending = {}

\* C1 witness: results delivered out of order: the result of a later request
\* was inserted while the earlier request of the pivot is still being executed
C1_Witness ==
  /\ HasDir
  /\ last.op = "receive_insert" /\ last.dir = "current"
  /\ CacheKeys # {}
  /\ \E i \in Pending :
       /\ i < last.idx
       /\ Dir.load_pivot = 0
       /\ BagIn(Executing([dir |-> "current", idx |-> i]), workers)

\* C2 (as claimed): a result of the loaded directory that is received when its
\* index is no longer in the resident set is discarded, not inserted
C2_LateResultDiscarded ==
  (HasDir /\ last.op \in ReceiveOps /\ last.dir = "current"
          /\ last.idx \notin ResidentSet)
    => last.op # "receive_insert"

\* C3: every index of the resident set is a key of loaded_images or a member
\* of pending_loads. It holds right after every update_loaded and, as
\* receive_image only moves an index from pending_loads to loaded_images, in
\* every state in between.
C3_ResidentCachedOrPending ==
  HasDir => ResidentSet \subseteq (CacheKeys \cup Pending)

\* C3 witness: after a navigation step that moved the pivot, one resident index
\* is loaded and another was just marked pending and submitted
C3_Witness ==
  /\ HasDir
  /\ last.op = "offset_current"
  /\ Dir.load_pivot > 0
  /\ ResidentSet \cap CacheKeys # {}
  /\ task_queue # <<>>
  /\ task_queue[Len(task_queue)].dir = "current"
  /\ task_queue[Len(task_queue)].idx \in ResidentSet \cap Pending

\* C4: right after every update_loaded no key of loaded_images lies outside the
\* resident set, and no index of the resident set was evicted
C4_EvictionExact ==
  (HasDir /\ last.op \in UpdateOps)
    => /\ CacheKeys \subseteq ResidentSet
       /\ last.evicted \cap ResidentSet = {}

\* C4 witness: a navigation step evicted one entry and kept another
C4_Witness ==
  /\ HasDir
  /\ last.op = "offset_current"
  /\ last.evicted # {}
  /\ CacheKeys # {}

\* C5 (as claimed): a failed load clears the pending marker: every pending
\* index has its load still in the pool, or a LoadFailed message is still on
\* its way; and the index of a result whose texture creation failed is neither
\* loaded nor pending
C5_FailureClearsPending ==
  HasDir =>
    /\ Cardinality({i \in Pending : ~Outstanding(i)}) <= UnhandledFailures
    /\ (last.op = "receive_texture_error" /\ last.dir = "current")
         => (last.idx \notin CacheKeys /\ last.idx \notin Pending)

\* C6: receive_image on a result whose index is already a key of loaded_images
\* leaves the LoadedDir as it was: the keys, the entry of that index and
\* pending_loads
C6_DuplicateDiscarded ==
  [][last'.op = "receive_duplicate" => loaded_dir' = loaded_dir]_vars

\* C6 witness: a result was received for an index that was already loaded
C6_Witness ==
  /\ HasDir
  /\ last.op = "receive_duplicate"
  /\ last.idx \in CacheKeys

C8_LoadSetSize ==
  policy_call.called =>
    Len(policy_call.load_set) <=
      1 + 2 * loading_policy.buffer_zone_count
        + loading_policy.load_behind_count + loading_policy.load_ahead_count

\* C8 witness: a call whose list has exactly that many elements, more than one
C8_Witness ==
  /\ policy_call.called
  /\ Len(policy_call.load_set) = max_loaded_image_count
  /\ Len(policy_call.load_set) > 1
  /\ Len(policy_call.load_set) < policy_call.max

C10_PivotReset ==
  (policy_call.called
     /\ Abs(policy_call.shown - policy_call.pivot) > loading_policy.buffer_zone_count)
    => /\ policy_call.new_pivot = policy_call.shown
       /\ Range(policy_call.load_set) =
            {k \in 0..(policy_call.max - 1) :
               /\ k >= policy_call.shown - loading_policy.buffer_zone_count
                                         - loading_policy.load_behind_count
               /\ k <= policy_call.shown + loading_policy.buffer_zone_count
                                         + loading_policy.load_ahead_count}

\* C10 witness: the pivot was reset and the range around the old pivot differs
\* from the range returned
C10_Witness ==
  /\ policy_call.called
  /\ policy_call.new_pivot # policy_call.pivot
  /\ policy_call.new_pivot = policy_call.shown
  /\ policy_call.pivot \notin Range(policy_call.load_set)

C12_PriorityOrdering ==
  policy_call.called =>
    LET p  == policy_call.new_pivot
        ls == policy_call.load_set
    IN  \A j, k \in 1..Len(ls) :
          j < k =>
            /\ (ls[k] >= p) => (ls[j] >= p)
            /\ ((ls[j] >= p) = (ls[k] >= p)) => Abs(p - ls[j]) < Abs(p - ls[k])

\* C12 witness: a list with two indices ahead of the pivot and two behind it
C12_Witness ==
  /\ policy_call.called
  /\ {policy_call.new_pivot - 2, policy_call.new_pivot - 1,
      policy_call.new_pivot + 1, policy_call.new_pivot + 2}
        \subseteq Range(policy_call.load_set)

\* the call of the scenario of C13
ScenarioCall ==
  /\ policy_call.called
  /\ policy_call.max = 10
  /\ loading_policy = [buffer_zone_count |-> 1, load_behind_count |-> 1,
                       load_ahead_count |-> 2]
  /\ policy_call.pivot = 5
  /\ policy_call.shown = 5

\* C13: collection size 10, buffer_zone 1, look_behind 1, look_ahead 2,
\* pivot 5 and shown 5: get_load_set returns pivot 5 and 5, 6, 7, 8, 4, 3
C13_ScenarioOrder ==
  ScenarioCall =>
    /\ policy_call.new_pivot = 5
    /\ policy_call.load_set = <<5, 6, 7, 8, 4, 3>>

\* C13 witness: the call of the scenario was made and returned six indices
C13_Witness ==
  /\ ScenarioCall
  /\ Len(policy_call.load_set) = 6

\* max(0, min(n-1, c + delta)) over the integers
ClampedSum(c, n, delta) ==
  IF delta >= (n - 1) - c THEN n - 1
  ELSE IF delta <= - c THEN 0
  ELSE c + delta

\* C14 (as claimed): offset_current(delta) moves the shown position c of a
\* collection of n images to max(0, min(n-1, c + delta)), for every delta, and
\* the shown position stays in [0, n-1]
C14_OffsetClamps ==
  [][\A offset \in NavOffsets :
       (HasDir /\ OffsetCurrent(offset)) =>
         /\ loaded_dir'[1].current_idx =
              ClampedSum(Dir.current_idx, Len(Dir.active_idxs), offset)
         /\ loaded_dir'[1].current_idx \in 0..(Len(Dir.active_idxs) - 1)]_vars

----------------------------------------------------------------------------
(* State functions of the pool *)

Threads == 1..NumWorkers

Tasks == 0..(MaxTasks - 1)

Thread(w) == pool.worker_threads[w]

\* the number of times input i is in the job distribution channel
InQueue(i) ==
  Cardinality({k \in 1..Len(task_queue) : task_queue[k] = JobInput(i)})

\* the number of results for input i in the output channel
InOutput(i) ==
  Cardinality({k \in 1..Len(output) : output[k].idx = i})

\* the threads that are executing input i
ExecutingThreads(i) == {w \in Threads : Thread(w).pc = "execute" /\ Thread(w).idx = i}

\* the Terminate messages drop has sent
TerminateSent ==
  IF pool.drop.pc = "alive" THEN 0
  ELSE IF pool.drop.pc = "terminate" THEN pool.drop.n
  ELSE NumWorkers

TerminateInQueue ==
  Cardinality({k \in 1..Len(task_queue) : task_queue[k] = Terminate})

ExitedThreads == {w \in Threads : Thread(w).pc = "exited"}

\* the LoadFailed notifications sent or about to be sent
LoadFailedReported ==
  Cardinality({k \in 1..Len(events) : events[k] = "LoadFailed"})
    + Cardinality({w \in Threads : Thread(w).event_message = "LoadFailed"})

----------------------------------------------------------------------------

\* the handlers of the interaction thread that change the LoadedDir
SessionOps == {"load_path", "offset_current", "receive_insert"}

\* C20: a step of a worker thread leaves the LoadedDir (loaded_images,
\* pending_loads, load_pivot, current_idx) as it was, and a step that changes
\* it is a step of a handler of the interaction thread
C20_WorkersLeaveSession ==
  [][/\ WorkerStep => loaded_dir' = loaded_dir
     /\ loaded_dir' # loaded_dir => last'.op \in SessionOps]_vars

\* C20 witness: a worker thread has sent a result and is about to notify,
\* while images are loaded and loads are pending
C20_Witness ==
  /\ HasDir
  /\ last = NoLast
  /\ CacheKeys # {}
  /\ Pending # {}
  /\ output # <<>>
  /\ BagIn(Notifying("ImageLoaded"), workers)

----------------------------------------------------------------------------

\* what C29 says of one receive_image step on a result whose index is not a
\* key of loaded_images: the index is a key afterwards and not pending, and no
\* other key and no other pending index is added or removed
ReceiveInserted(i) ==
  /\ i \in DOMAIN loaded_dir'[1].loaded_images
  /\ i \notin loaded_dir'[1].pending_loads
  /\ DOMAIN loaded_dir'[1].loaded_images \ {i} = CacheKeys
  /\ loaded_dir'[1].pending_loads = Pending \ {i}

----------------------------------------------------------------------------

----------------------------------------------------------------------------
(* The ratings *)

HasRatings == rating_store.data # None

\* ratings_data of the ImageRatings
RatingsDataNow == rating_store.data[1]

\* the names a document has an entry for
DocNames(doc) == {doc.entries[k][1] : k \in 1..Len(doc.entries)}

\* the entries of a document, as a set
DocEntries(doc) == {doc.entries[k] : k \in 1..Len(doc.entries)}

\* the content of the ratings file is what ImageRatings::new read
FreshlyLoaded ==
  HasRatings /\ rating_store.result = "Loaded" /\ rating_store.file # None

\* C25: after load and after every set, the keys of ratings and of
\* orphaned_ratings are disjoint, every key of ratings is a known file name,
\* no key of orphaned_ratings is one, and every entry of the file that load
\* read is in exactly one of the two maps.
C25_KnownOrphanedPartition ==
  HasRatings =>
    /\ DOMAIN RatingsDataNow.ratings \cap DOMAIN RatingsDataNow.orphaned_ratings = {}
    /\ DOMAIN RatingsDataNow.ratings \subseteq rating_store.known
    /\ DOMAIN RatingsDataNow.orphaned_ratings \cap rating_store.known = {}
    /\ FreshlyLoaded =>
         \A n \in DocNames(rating_store.file[1]) :
           (n \in DOMAIN RatingsDataNow.ratings)
             # (n \in DOMAIN RatingsDataNow.orphaned_ratings)

\* a file with an entry of a known and one of an unknown name was loaded and
\* a rating was set
C25_Witness ==
  /\ HasRatings
  /\ rating_store.sets > 0
  /\ rating_store.orig # None
  /\ DocNames(rating_store.orig[1]) \cap rating_store.known # {}
  /\ DOMAIN RatingsDataNow.orphaned_ratings # {}


\* C26: at every point, a save in progress, a crash and a write that stores
\* part of the bytes included, the content of the ratings file is a complete
\* document: the one of the last save that put a whole document there, or
\* the file the session found, or no file if there was none.
C26_AtomicSave == rating_store.file = rating_store.complete


\* set_rating has returned Ok and nothing was done since
SetSucceeded ==
  HasRatings /\ rating_store.pc = "idle" /\ rating_store.result = "Ok"

\* what ImageRatings::new would read now, with the same known file names
Reloaded ==
  RatingsData_load(rating_store.file, rating_store.known, TRUE)

\* C21: after set(name, r) has succeeded, loading the ratings file with the
\* same known file names succeeds and yields the ratings held in memory,
\* that is r for name and for every other known name the rating it had
\* before the set.
C21_RatingRoundTrip ==
  SetSucceeded =>
    /\ Reloaded.result = "Loaded"
    /\ Reloaded.data[1].ratings = RatingsDataNow.ratings


\* the entries name -> level of a map of ratings
LevelEntries(map) == {<<n, to_u8(map[n])>> : n \in DOMAIN map}

\* a whole document with each name once, in ascending order of name, whose
\* entries are those of ratings and of orphaned_ratings, as levels 0, 1, 2
IsDocumentOf(doc, data) ==
  /\ ~ doc.torn
  /\ DocEntries(doc) = LevelEntries(data.ratings) \cup LevelEntries(data.orphaned_ratings)
  /\ \A k \in 1..Len(doc.entries) : doc.entries[k][2] \in 0..2
  /\ \A j, k \in 1..Len(doc.entries) : j < k => doc.entries[j][1] < doc.entries[k][1]

\* C30: every successful save writes a document whose entries are exactly
\* those of ratings and of orphaned_ratings, each level the integer 0, 1 or 2
\* of its rating, each name once, in ascending order of name.
C30_SavedDocument ==
  SetSucceeded =>
    /\ rating_store.file # None
    /\ IsDocumentOf(rating_store.file[1], RatingsDataNow)

\* the document that save_ratings serializes and hands to write has the
\* content C30 describes
SerializedDocument ==
  (HasRatings /\ rating_store.pc # "idle") =>
    IsDocumentOf(Doc(rating_store.s, FALSE), RatingsDataNow)


\* the entries of the file the session found whose name is no known file
OrphanEntries ==
  IF rating_store.orig = None THEN {}
  ELSE {e \in DocEntries(rating_store.orig[1]) : e[1] \notin rating_store.known}

\* C23: an entry of the ratings file whose name is no known file is, after
\* the load and any number of set + save, still in the ratings file, with
\* the level it had.
C23_OrphanPreservation ==
  \A e \in OrphanEntries :
    /\ rating_store.file # None
    /\ e \in DocEntries(rating_store.file[1])


\* the errors of RatingsSaveError
SaveErrors == {"SerializeError", "WriteError", "PersistError"}

\* C27: set(name, r) puts r into the map and changes no other entry; a save
\* that fails at serialization, at the temporary file or at the replace
\* returns its error and leaves the map as the set made it; a save that
\* succeeds has written the document of the ratings then in memory.
C27_FailedSaveKeepsMemory ==
  [][(HasRatings /\ HasRatings') =>
       /\ \A img_name \in Names, rating \in {"Low", "Medium", "High"}, ser_ok \in BOOLEAN :
            SetRating(img_name, rating, ser_ok) =>
              /\ RatingsDataNow'.ratings[img_name] = rating
              /\ \A n \in rating_store.known \ {img_name} :
                   RatingsDataNow'.ratings[n] = RatingsDataNow.ratings[n]
              /\ RatingsDataNow'.orphaned_ratings = RatingsDataNow.orphaned_ratings
              /\ ~ ser_ok => rating_store'.result = "SerializeError"
       /\ rating_store.pc # "idle" =>
            /\ RatingsDataNow' = RatingsDataNow
            /\ rating_store'.pc = "idle" => rating_store'.result \in SaveErrors \cup {"Ok"}
       /\ SetSucceeded' =>
            rating_store'.file = Some(Doc(serialize(RatingsDataNow'), FALSE))]_vars


\* a level clamped into [0, 2], as a rating
Clamped(level) ==
  IF level <= 0 THEN "Low" ELSE IF level = 1 THEN "Medium" ELSE "High"

\* the rating that data holds for name n, in either map
RatingOf(data, n) ==
  IF n \in DOMAIN data.ratings THEN data.ratings[n] ELSE data.orphaned_ratings[n]

\* load read the file and holds every entry of it with its level clamped
LoadedClamped ==
  /\ rating_store'.result = "Loaded"
  /\ \A e \in DocEntries(rating_store.file[1]) :
       /\ e[1] \in DOMAIN RatingsDataNow'.ratings \cup DOMAIN RatingsDataNow'.orphaned_ratings
       /\ RatingOf(RatingsDataNow', e[1]) = Clamped(e[2])

\* the ratings file is there and is a whole document
WholeFile == rating_store.file # None /\ ~ rating_store.file[1].torn

\* every level of the ratings file is a u8
LevelsAreU8 ==
  \A e \in DocEntries(rating_store.file[1]) : e[2] \in 0..U8Max

\* what load does with a whole file: it accepts one whose levels are all
\* in [0, 255] and clamps them, and rejects any other with DeserializeError
ClampOnReadU8 ==
  [][(WholeFile /\ RatingsNew(TRUE)) =>
       IF LevelsAreU8 THEN LoadedClamped
       ELSE rating_store'.result = "DeserializeError" /\ ~ HasRatings']_vars

\* C24: whatever integer levels the ratings file holds, load accepts every
\* entry instead of failing, and clamps its level into [0, 2]: 0, 1, 2 are
\* Low, Medium, High, a level above 2 is High.
C24_ClampOnRead ==
  [][(WholeFile /\ RatingsNew(TRUE)) => LoadedClamped]_vars


\* a save is in progress: s is the document it serialized
Saving == HasRatings /\ rating_store.pc # "idle"

FileNames ==
  IF rating_store.file = None THEN {} ELSE DocNames(rating_store.file[1])

\* C39: after load and after any sequence of set calls the keys of ratings
\* are exactly the known file names, so get_rating is defined for every
\* known name; load gives Low to every known name that the ratings file does
\* not have, and a set changes the rating of no other name, so a name never
\* rated and absent from the file stays Low.
C39_EveryKnownImageRated ==
  /\ [](HasRatings =>
          /\ DOMAIN RatingsDataNow.ratings = rating_store.known
          /\ \A n \in rating_store.known :
               RatingsDataNow.ratings[n] \in {"Low", "Medium", "High"})
  /\ [][((\E open_ok \in BOOLEAN : RatingsNew(open_ok)) /\ HasRatings') =>
          \A n \in rating_store.known \ FileNames :
            RatingsDataNow'.ratings[n] = "Low"]_vars
  /\ [][\A img_name \in Names, rating \in {"Low", "Medium", "High"}, ser_ok \in BOOLEAN :
          SetRating(img_name, rating, ser_ok) =>
            \A n \in rating_store.known \ {img_name} :
              RatingsDataNow'.ratings[n] = RatingsDataNow.ratings[n]]_vars

\* a known name that the ratings file does not have is Low after a set of
\* another name, whose rating the file did have
C39_Witness ==
  /\ HasRatings
  /\ rating_store.sets > 0
  /\ rating_store.orig # None
  /\ \E n, other \in rating_store.known :
       /\ n \notin DocNames(rating_store.orig[1])
       /\ other \in DocNames(rating_store.orig[1])
       /\ RatingsDataNow.ratings[n] = "Low"
       /\ RatingsDataNow.ratings[other] # "Low"


----------------------------------------------------------------------------
(* The session and the pool, once more *)

\* C32: in every reachable state the number of images in loaded_images is at
\* most 1 + 2 * buffer_zone_count + load_behind_count + load_ahead_count.
C32_BoundedCache ==
  HasDir => Cardinality(CacheKeys) <= max_loaded_image_count


\* ImageLoaded notifications sent and not yet handled
UnhandledImageLoaded ==
  Cardinality({k \in 1..Len(events) : events[k] = "ImageLoaded"})

\* C33: a worker sends ImageLoaded only after its result is on the output
\* channel: in every reachable state at least as many results wait in the
\* output channel as there are ImageLoaded notifications not yet handled, so
\* the recv of receive_image, called once per notification, finds a result.
C33_NotificationFollowsResult ==
  /\ Len(output) >= UnhandledImageLoaded
  /\ (events # <<>> /\ Head(events) = "ImageLoaded") => output # <<>>

\* a notification waits to be handled while another worker has sent its
\* result and not yet its notification
C33_Witness ==
  /\ HasDir
  /\ UnhandledImageLoaded > 0
  /\ Len(output) > UnhandledImageLoaded
  /\ BagIn(Notifying("ImageLoaded"), workers)


\* C34: every result that receive_image inserts is a result of the directory
\* now loaded, for an index that is in pending_loads when it is received; no
\* result of a directory loaded before is inserted.
C34_ResultsOfThisSession ==
  [][last'.op = "receive_insert" =>
       /\ Head(output).dir = "current"
       /\ Head(output).idx \in Pending]_vars


\* the number of elements of the sequence s that equal t
CountIn(t, s) == Cardinality({k \in 1..Len(s) : s[k] = t})

\* the number of loads of collection index i of the loaded directory that
\* are in the pool: submitted, and the result not yet received
OutstandingCount(i) ==
  LET t == [dir |-> "current", idx |-> i]
  IN  CountIn(t, task_queue) + CopiesIn(Executing(t), workers) + CountIn(t, output)

\* the requests that the step submits
Submitted == SubSeq(task_queue', Len(task_queue) + 1, Len(task_queue'))

\* C35: within a session at most one load of each collection index is
\* submitted and not yet received; offset_current submits no index that is
\* pending or loaded.
C35_OneOutstandingLoad ==
  /\ [](HasDir => \A i \in 0..(Dir.collection - 1) : OutstandingCount(i) <= 1)
  /\ [][(HasDir /\ last'.op = "offset_current") =>
          \A k \in 1..Len(Submitted) :
            /\ Submitted[k].idx \notin Pending
            /\ Submitted[k].idx \in DOMAIN Dir.loaded_images =>
                 Submitted[k].idx \in last'.evicted]_vars


\* the outcome of executing input t is there: its result is on the output
\* channel (under the name of a previous directory if another one was loaded
\* since), or a worker is about to report a failed load
OutcomeOf(t) ==
  \/ t \in Range(output)
  \/ Stale(t) \in Range(output)
  \/ BagIn(Notifying("LoadFailed"), workers)

NoFailure ==
  /\ ~ BagIn(Notifying("LoadFailed"), workers)
  /\ \A k \in 1..Len(events) : events[k] # "LoadFailed"
  /\ last.op \notin {"receive_texture_error", "load_failed"}

\* nothing is pending, every index of the resident set is loaded, and
\* current_image returns the shown image
Settled ==
  /\ Pending = {}
  /\ ResidentSet \subseteq CacheKeys
  /\ current_collection_idx(Dir) \in CacheKeys

----------------------------------------------------------------------------
(* The rating filter. In FilterSpec the LoadedDir has three more fields:   *)
(*   ratings: ImageRatings.ratings_data.ratings, by collection index (a    *)
(*     file name stands for its index, as name_to_idx maps them)           *)
(*   rating_filter: None or Some(rating)                                   *)
(*   fault: the interaction thread panicked in a call on this LoadedDir    *)
(* The ratings file is left out: set_current_rating keeps the rating in    *)
(* memory whether or not the save succeeds.                                *)

AllRatings == {"Low", "Medium", "High"}

\* the elements of the set S of indices as a Vec, after sort_unstable
RECURSIVE sorted_idxs(_)
sorted_idxs(S) ==
  IF S = {} THEN <<>>
  ELSE LET least == CHOOSE x \in S : \A y \in S : x <= y
       IN  <<least>> \o sorted_idxs(S \ {least})

\* filter_ratings mapped through name_to_idx and sorted
filter_ratings(ld, rating) ==
  sorted_idxs({i \in 0..(ld.collection - 1) : ld.ratings[i] = rating})

\* new_active_idxs.binary_search(&coll_idx), Ok and Err alike: the position
\* of coll_idx in the sorted list, or the one where it would be inserted
binary_search(idxs, coll_idx) ==
  Cardinality({k \in 1..Len(idxs) : idxs[k] < coll_idx})

\* LoadedDir::new with the ratings that ImageRatings::new loaded
new_filter_dir(n, ratings) ==
  new_loaded_dir(n) @@ [ratings |-> ratings, rating_filter |-> None, fault |-> FALSE]

Faulted == loaded_dir # None /\ loaded_dir[1].fault

FilterInit ==
  /\ loading_policy \in [buffer_zone_count : 0..MaxCount,
                         load_behind_count : 0..MaxCount,
                         load_ahead_count  : 0..MaxCount]
  /\ \E n \in 1..MaxFilterImages :
       \E ratings \in [0..(n - 1) -> AllRatings] :
         LET st == update_loaded(new_filter_dir(n, ratings))
         IN  /\ loaded_dir = Some(st.dir)
             /\ task_queue = st.submitted
  /\ workers = EmptyBag
  /\ output = <<>>
  /\ events = <<>>
  /\ last = [NoLast EXCEPT !.op = "load_path"]
  /\ policy_call = NoCall
  /\ pool = PoolNew
  /\ rating_store = NoStore

\* LoadedDir::set_current_rating, from the keys 1, 2, 3
SetCurrentRating(rating) ==
  /\ loaded_dir # None
  /\ loaded_dir' = Some([loaded_dir[1] EXCEPT
                           !.ratings[current_collection_idx(loaded_dir[1])] = rating])
  /\ last' = [NoLast EXCEPT !.op = "set_current_rating"]
  /\ UNCHANGED <<loading_policy, task_queue, workers, output, events, policy_call, pool, rating_store>>

\* variant: a filter that no image passes leaves the list as it is
set_rating_filter_keeps_list(ld, rating, overflow_checks) ==
  LET new_active_idxs ==
        IF rating # None THEN filter_ratings(ld, rating[1])
        ELSE [k \in 1..ld.collection |-> k - 1]
      kept == IF new_active_idxs = <<>> THEN ld.active_idxs ELSE new_active_idxs
      new_current == Min2(Max2(binary_search(kept, current_collection_idx(ld)), 0),
                          Len(kept) - 1)
  IN  update_loaded([ld EXCEPT !.rating_filter = rating,
                               !.active_idxs = kept,
                               !.load_pivot = new_current,
                               !.current_idx = new_current])

\* set_rating_filter: [dir, submitted]. When no image passes the filter,
\* new_active_idxs.len() - 1 underflows in usize. A build with overflow
\* checks panics there, before any field is assigned. A build without them
\* gets usize::MAX, assigns the empty list and the position 0, and panics in
\* update_loaded: load_set_around_pivot(0, 0) clamps into [0, -1] and yields
\* the one index usize::MAX, on which collection_idx indexes the empty list.
set_rating_filter(ld, rating, overflow_checks) ==
  LET new_active_idxs ==
        IF rating # None THEN filter_ratings(ld, rating[1])
        ELSE [k \in 1..ld.collection |-> k - 1]
      new_current == Min2(Max2(binary_search(new_active_idxs, current_collection_idx(ld)), 0),
                          Len(new_active_idxs) - 1)
  IN  IF new_active_idxs = <<>>
        THEN [dir |-> IF overflow_checks
                        THEN [ld EXCEPT !.fault = TRUE]
                        ELSE [ld EXCEPT !.rating_filter = rating,
                                        !.active_idxs = <<>>,
                                        !.load_pivot = 0,
                                        !.current_idx = 0,
                                        !.fault = TRUE],
              submitted |-> <<>>]
        ELSE update_loaded([ld EXCEPT !.rating_filter = rating,
                                      !.active_idxs = new_active_idxs,
                                      !.load_pivot = new_current,
                                      !.current_idx = new_current])

\* LoadedDir::set_rating_filter, from Escape and the keys 1, 2, 3 with the
\* super key
SetRatingFilter(rating, overflow_checks) ==
  /\ loaded_dir # None
  /\ LET st == set_rating_filter(loaded_dir[1], rating, overflow_checks)
     IN  /\ loaded_dir' = Some(st.dir)
         /\ task_queue' = task_queue \o st.submitted
         /\ last' = update_record("set_rating_filter", loaded_dir[1], st)
  /\ UNCHANGED <<loading_policy, workers, output, events, policy_call, pool, rating_store>>

\* a panic ends the process: nothing is called after it
FilterNext ==
  /\ ~ Faulted
  /\ \/ \E offset \in {-1, 1} : OffsetCurrent(offset)
     \/ \E rating \in AllRatings : SetCurrentRating(rating)
     \/ \E rating \in {None} \cup {Some(r) : r \in AllRatings}, overflow_checks \in BOOLEAN :
          SetRatingFilter(rating, overflow_checks)

FilterSpec == FilterInit /\ [][FilterNext]_vars

\* the LoadedDir of the filter model
ActiveIdxs == Dir.active_idxs

\* C36: after any sequence of offset_current, set_current_rating and
\* set_rating_filter calls, a filter that no image passes included, no call
\* has faulted, the active index list is non-empty, strictly ascending and
\* holds only indices of the collection, and the shown position and the
\* pivot are positions of that list.
C36_ValidPositions ==
  HasDir =>
    /\ ~ Dir.fault
    /\ ActiveIdxs # <<>>
    /\ \A j, k \in 1..Len(ActiveIdxs) : j < k => ActiveIdxs[j] < ActiveIdxs[k]
    /\ \A k \in 1..Len(ActiveIdxs) : ActiveIdxs[k] \in 0..(Dir.collection - 1)
    /\ Dir.current_idx \in 0..(Len(ActiveIdxs) - 1)
    /\ Dir.load_pivot \in 0..(Len(ActiveIdxs) - 1)


\* the active index list is what the filter now in force selects
FilterConsistent ==
  ActiveIdxs = IF Dir.rating_filter = None
                 THEN [k \in 1..Dir.collection |-> k - 1]
                 ELSE filter_ratings(Dir, Dir.rating_filter[1])

\* what set_rating_filter establishes: right after a call that did not
\* fault the list is the one the filter selects
FilterConsistentAfterSet ==
  (HasDir /\ ~ Dir.fault /\ last.op = "set_rating_filter") => FilterConsistent

\* C37: while a filter Some(r) is active the active index list is exactly
\* the collection indices of the images whose rating is r, right after
\* set_rating_filter and after later set_current_rating calls; with the
\* filter None the list is all indices 0..n-1.
C37_FilterConsistency ==
  (HasDir /\ ~ Dir.fault) => FilterConsistent

====
